---------------------------- MODULE Spec2Model ----------------------------
(***************************************************************************)
(* Model of package fileutil's Editer (src/edit.go): in-place, regexp      *)
(* driven editing of one file.                                             *)
(*                                                                         *)
(* A file content is a sequence of bytes; a byte is one of the strings of  *)
(* Bytes.  A regular expression is a sequence of tokens: a byte stands for *)
(* the pattern matching that byte, SpaceStar for the pattern               *)
(* "[[:space:]]*" and BadTok for an unbalanced "(" (on which               *)
(* regexp.Compile fails).                                                  *)
(***************************************************************************)
EXTENDS Integers, Sequences, FiniteSets, TLC

\* ------------------------------------------------------------------ bounds

\* Longest file content (in bytes) the file holds before the Editer is made.
MaxLen == 3
\* Longest list of patterns / Replacer / ReplacerAtLine entries of one call.
MaxEntries == 2
\* Largest match limit n passed to ReplaceN / ReplaceAtLineN.
MaxN == 2

\* ------------------------------------------------------------------- bytes

NL == "\n"
SP == " "
\* The zero byte of a freshly made []byte.
NUL == "NUL"

\* Bytes a file holds before the edit.
FileBytes == {"a", "#", SP, NL}

RECURSIVE SeqsUpTo(_, _)
SeqsUpTo(S, k) ==
    IF k = 0 THEN {<<>>}
    ELSE LET shorter == SeqsUpTo(S, k - 1)
         IN  shorter \cup {Append(s, x) : s \in {t \in shorter : Len(t) = k - 1}, x \in S}

\* s[from:to] of Go: the bytes at offsets from .. to-1 (offsets count from 0).
Slice(s, from, to) == SubSeq(s, from + 1, to)

RECURSIVE Zeros(_)
Zeros(k) == IF k <= 0 THEN <<>> ELSE <<NUL>> \o Zeros(k - 1)

\* ------------------------------------------------------- regular expressions

SpaceStar == "[[:space:]]*"
BadTok == "("

\* [[:space:]] of Go's regexp: \t \n \v \f \r and the space.
IsSpace(ch) == ch \in {SP, NL}

\* regexp.Compile: the error, or the compiled expression.
Compile(re) ==
    IF \E k \in 1..Len(re) : re[k] = BadTok
    THEN [err |-> "regexp", re |-> <<>>]
    ELSE [err |-> "nil", re |-> re]

\* Number of [[:space:]] bytes of s from offset i on.
RECURSIVE SpaceRun(_, _)
SpaceRun(s, i) ==
    IF i < Len(s) /\ IsSpace(s[i + 1]) THEN 1 + SpaceRun(s, i + 1) ELSE 0

\* The end offset of the match of re[k..] that starts at offset i of s and that
\* a backtracking matcher prefers (a star takes as much as it can), -1 if none.
RECURSIVE MatchEnd(_, _, _, _), TryStar(_, _, _, _, _)
MatchEnd(re, k, s, i) ==
    IF k > Len(re) THEN i
    ELSE IF re[k] = SpaceStar THEN TryStar(re, k, s, i, SpaceRun(s, i))
    ELSE IF i < Len(s) /\ s[i + 1] = re[k] THEN MatchEnd(re, k + 1, s, i + 1)
    ELSE -1

TryStar(re, k, s, i, r) ==
    LET e == MatchEnd(re, k + 1, s, i + r)
    IN  IF e >= 0 THEN e
        ELSE IF r = 0 THEN -1
        ELSE TryStar(re, k, s, i, r - 1)

\* The leftmost match of re in s at or after offset pos: <<start, end>>, or
\* <<-1, -1>> when there is none.
RECURSIVE FindFrom(_, _, _)
FindFrom(re, s, pos) ==
    IF pos > Len(s) THEN <<-1, -1>>
    ELSE LET e == MatchEnd(re, 1, s, pos)
         IN  IF e >= 0 THEN <<pos, e>> ELSE FindFrom(re, s, pos + 1)

\* (*Regexp).Match
Match(re, s) == FindFrom(re, s, 0)[1] >= 0

\* The callback both replace loops hand to ReplaceAllFunc, with the counter it
\* closes over: the text put in place of match m, and the counter afterwards.
ReplFunc(i, repl, m) ==
    IF i # 0 THEN [text |-> repl, i |-> i - 1] ELSE [text |-> m, i |-> i]

\* (*Regexp).ReplaceAllFunc with that callback: the loop of regexp.replaceAll.
\* Returns the new text, whether the callback ran (it sets isNew) and the
\* counter left.
RECURSIVE replaceAll(_, _, _, _, _, _, _, _)
replaceAll(re, src, repl, searchPos, lastMatchEnd, buf, i, called) ==
    LET a == IF searchPos > Len(src) THEN <<-1, -1>> ELSE FindFrom(re, src, searchPos)
    IN  IF a[1] < 0
        THEN [out |-> buf \o Slice(src, lastMatchEnd, Len(src)), called |-> called, i |-> i]
        ELSE LET copied == buf \o Slice(src, lastMatchEnd, a[1])
                 \* no replacement for an empty match right after another match
                 run == a[2] > lastMatchEnd \/ a[1] = 0
                 f == ReplFunc(i, repl, Slice(src, a[1], a[2]))
                 width == IF searchPos < Len(src) THEN 1 ELSE 0
                 next == IF searchPos + width > a[2] THEN searchPos + width
                         ELSE IF searchPos + 1 > a[2] THEN searchPos + 1
                         ELSE a[2]
             IN  replaceAll(re, src, repl, next, a[2],
                            IF run THEN copied \o f.text ELSE copied,
                            IF run THEN f.i ELSE i,
                            called \/ run)

ReplaceAllFunc(re, src, repl, n) == replaceAll(re, src, repl, 0, 0, <<>>, n, FALSE)

\* bufio's ReadBytes('\n') on the bytes not yet read: the line up to and with
\* the first newline, or, when there is none, all the rest together with io.EOF.
RECURSIVE IndexNL(_, _)
IndexNL(s, i) ==
    IF i > Len(s) THEN 0 ELSE IF s[i] = NL THEN i ELSE IndexNL(s, i + 1)

ReadBytes(rest) ==
    LET i == IndexNL(rest, 1)
    IN  IF i = 0
        THEN [line |-> rest, rest |-> <<>>, err |-> "EOF"]
        ELSE [line |-> SubSeq(rest, 1, i), rest |-> SubSeq(rest, i + 1, Len(rest)), err |-> "nil"]

\* (*os.File).Read at offset off of a regular file holding c, into a fresh
\* make([]byte, k): the slice afterwards, the count and the error.
FileRead(c, off, k) ==
    IF k = 0 THEN [data |-> <<>>, n |-> 0, err |-> "nil"]
    ELSE IF off >= Len(c) THEN [data |-> Zeros(k), n |-> 0, err |-> "EOF"]
    ELSE LET n == IF k < Len(c) - off THEN k ELSE Len(c) - off
         IN  [data |-> Slice(c, off, off + n) \o Zeros(k - n), n |-> n, err |-> "nil"]

\* -------------------------------------------------------------- operations

\* What one Editer method did: the error returned, whether it called rewrite
\* and with which bytes, and the number of content bytes it read from the file.
Result(err, commit, out, read) ==
    [err |-> err, commit |-> commit, out |-> out, read |-> read]

\* rewrite: seek to 0, write b, truncate to the count written.
rewrite(b, read) == Result("nil", TRUE, b, read)

\* Editer.Delete on a file holding c.
Delete(c, begin, end) ==
    LET size == Len(c)
        head == FileRead(c, 0, begin)
        tail == FileRead(c, end, size - (end - begin))
    IN  IF head.err # "nil" THEN Result(head.err, FALSE, <<>>, head.n)
        ELSE IF tail.err # "nil" THEN Result(tail.err, FALSE, <<>>, head.n + tail.n)
        ELSE rewrite(head.data \o tail.data, head.n + tail.n)

\* The error of the first expression of res (in order) that does not compile.
RECURSIVE CompileAll(_, _)
CompileAll(res, k) ==
    IF k > Len(res) THEN "nil"
    ELSE IF Compile(res[k]).err # "nil" THEN Compile(res[k]).err
    ELSE CompileAll(res, k + 1)

\* The inner loop of Comment over the compiled expressions: the line is
\* prefixed on the first expression that matches it, and the loop breaks.
RECURSIVE CommentLine(_, _, _, _)
CommentLine(line, allReSearch, k, char) ==
    IF k > Len(allReSearch) THEN [line |-> line, isNew |-> FALSE]
    ELSE IF Match(allReSearch[k], line) THEN [line |-> char \o line, isNew |-> TRUE]
    ELSE CommentLine(line, allReSearch, k + 1, char)

\* The loop of Comment over the lines: it ends at io.EOF.
RECURSIVE CommentLoop(_, _, _, _, _)
CommentLoop(rest, allReSearch, char, buf, isNew) ==
    LET rb == ReadBytes(rest)
    IN  IF rb.err = "EOF" THEN [buf |-> buf, isNew |-> isNew]
        ELSE LET l == CommentLine(rb.line, allReSearch, 1, char)
             IN  CommentLoop(rb.rest, allReSearch, char, buf \o l.line, isNew \/ l.isNew)

\* Whether the configuration holds no comment character.
NoComment(cf) == cf.nil \/ Len(cf.Comment) = 0

\* Editer.Comment on a file holding c, with configuration cf.
Comment(c, cf, reLine) ==
    IF NoComment(cf) THEN Result("errComment", FALSE, <<>>, 0)
    ELSE IF CompileAll(reLine, 1) # "nil" THEN Result(CompileAll(reLine, 1), FALSE, <<>>, 0)
    ELSE LET l == CommentLoop(c, reLine, cf.Comment \o <<SP>>, <<>>, FALSE)
         IN  IF l.isNew THEN rewrite(l.buf, Len(c))
             ELSE Result("nil", FALSE, <<>>, Len(c))

\* ReplaceLoop with one counter for all the entries: what is left of the limit
\* after an entry is all the next one gets.
RECURSIVE ReplaceLoopOneBudget(_, _, _, _, _)
ReplaceLoopOneBudget(content, r, k, n, isNew) ==
    IF k > Len(r) THEN [err |-> "nil", content |-> content, isNew |-> isNew]
    ELSE LET reSearch == Compile(r[k].Search)
         IN  IF reSearch.err # "nil"
             THEN [err |-> reSearch.err, content |-> content, isNew |-> isNew]
             ELSE LET x == ReplaceAllFunc(reSearch.re, content, r[k].Replace, n)
                  IN  ReplaceLoopOneBudget(x.out, r, k + 1, x.i, isNew \/ x.called)

\* The loop of genReplace over the entries, compiling each when its turn comes.
RECURSIVE ReplaceLoop(_, _, _, _, _)
ReplaceLoop(content, r, k, n, isNew) ==
    IF k > Len(r) THEN [err |-> "nil", content |-> content, isNew |-> isNew]
    ELSE LET reSearch == Compile(r[k].Search)
         IN  IF reSearch.err # "nil"
             THEN [err |-> reSearch.err, content |-> content, isNew |-> isNew]
             ELSE LET x == ReplaceAllFunc(reSearch.re, content, r[k].Replace, n)
                  IN  ReplaceLoop(x.out, r, k + 1, n, isNew \/ x.called)

\* genReplace without the test of isNew: it commits whatever it found.
genReplaceAlwaysCommits(c, r, n) ==
    IF n = 0 THEN rewrite(c, Len(c))
    ELSE LET l == ReplaceLoop(c, r, 1, n, FALSE)
         IN  IF l.err # "nil" THEN Result(l.err, FALSE, <<>>, Len(c))
             ELSE rewrite(l.content, Len(c))

\* Editer.genReplace on a file holding c.
genReplace(c, r, n) ==
    IF n = 0 THEN Result("nil", FALSE, <<>>, 0)
    ELSE LET l == ReplaceLoop(c, r, 1, n, FALSE)
         IN  IF l.err # "nil" THEN Result(l.err, FALSE, <<>>, Len(c))
             ELSE IF l.isNew THEN rewrite(l.content, Len(c))
             ELSE Result("nil", FALSE, <<>>, Len(c))

\* The error of the first Line or Search expression (entry by entry, Line
\* first) that does not compile.
RECURSIVE CompileAtLine(_, _)
CompileAtLine(r, k) ==
    IF k > Len(r) THEN "nil"
    ELSE IF Compile(r[k].Line).err # "nil" THEN Compile(r[k].Line).err
    ELSE IF Compile(r[k].Search).err # "nil" THEN Compile(r[k].Search).err
    ELSE CompileAtLine(r, k + 1)

\* The inner loop of genReplaceAtLine over the entries, for one line.
RECURSIVE ReplaceLine(_, _, _, _, _)
ReplaceLine(line, r, k, n, isNew) ==
    IF k > Len(r) THEN [line |-> line, isNew |-> isNew]
    ELSE IF Match(r[k].Line, line)
    THEN LET x == ReplaceAllFunc(r[k].Search, line, r[k].Replace, n)
         IN  ReplaceLine(x.out, r, k + 1, n, isNew \/ x.called)
    ELSE ReplaceLine(line, r, k + 1, n, isNew)

\* The loop of genReplaceAtLine over the lines: it ends at io.EOF.
RECURSIVE ReplaceAtLineLoop(_, _, _, _, _)
ReplaceAtLineLoop(rest, r, n, buf, isNew) ==
    LET rb == ReadBytes(rest)
    IN  IF rb.err = "EOF" THEN [buf |-> buf, isNew |-> isNew]
        ELSE LET l == ReplaceLine(rb.line, r, 1, n, FALSE)
             IN  ReplaceAtLineLoop(rb.rest, r, n, buf \o l.line, isNew \/ l.isNew)

\* genReplaceAtLine compiling as genReplace does, after the content is read.
genReplaceAtLineCompilingLate(c, r, n) ==
    IF n = 0 THEN Result("nil", FALSE, <<>>, 0)
    ELSE IF CompileAtLine(r, 1) # "nil" THEN Result(CompileAtLine(r, 1), FALSE, <<>>, Len(c))
    ELSE LET l == ReplaceAtLineLoop(c, r, n, <<>>, FALSE)
         IN  IF l.isNew THEN rewrite(l.buf, Len(c))
             ELSE Result("nil", FALSE, <<>>, Len(c))

\* Editer.genReplaceAtLine on a file holding c.
genReplaceAtLine(c, r, n) ==
    IF n = 0 THEN Result("nil", FALSE, <<>>, 0)
    ELSE IF CompileAtLine(r, 1) # "nil" THEN Result(CompileAtLine(r, 1), FALSE, <<>>, 0)
    ELSE LET l == ReplaceAtLineLoop(c, r, n, <<>>, FALSE)
         IN  IF l.isNew THEN rewrite(l.buf, Len(c))
             ELSE Result("nil", FALSE, <<>>, Len(c))

\* The entries CommentOut builds from the line expressions.
CommentOutSearch(comment) == <<SpaceStar>> \o comment \o <<SpaceStar>>
AllSearch(reLine, comment) ==
    [k \in 1..Len(reLine) |->
        [Line |-> reLine[k], Search |-> CommentOutSearch(comment), Replace |-> <<>>]]

\* Editer.CommentOut on a file holding c, with configuration cf.
CommentOut(c, cf, reLine) ==
    IF NoComment(cf) THEN Result("errComment", FALSE, <<>>, 0)
    ELSE genReplaceAtLine(c, AllSearch(reLine, cf.Comment), 1)

\* ------------------------------------------------------- reads that may fail

\* The number of read calls a method makes on a file of these lengths: one
\* takes the content, the next meets the end of the file.
MaxReads == 2

\* A failure of the device under the file: the read call of that number
\* (counted from 1 within one method) fails, and the calls after it fail as
\* well (again) or succeed. NoFault: every read succeeds.
NoFault == [call |-> 0, again |-> FALSE]
FaultSet ==
    {NoFault} \cup {[call |-> k, again |-> a] : k \in 1..MaxReads, a \in BOOLEAN}

\* The error of a failed read (not io.EOF), and the mark, in the place of the
\* error, of a method that never returns.
EIO == "EIO"
Looping == "never returns"

\* Whether the read call that follows calls earlier ones fails.
Fails(fault, calls) ==
    fault.call # 0 /\ (fault.call = calls + 1 \/ (fault.again /\ fault.call <= calls))

\* One (*os.File).Read at offset off into a buffer with room for all the
\* content, as bufio's Reader and ioutil.ReadAll issue it: the bytes and the error.
SysRead(c, off, calls, fault) ==
    IF Fails(fault, calls) THEN [data |-> <<>>, err |-> EIO]
    ELSE IF off >= Len(c) THEN [data |-> <<>>, err |-> "EOF"]
    ELSE [data |-> Slice(c, off, Len(c)), err |-> "nil"]

\* The bufio.Reader of the Editer at the start of a method, after the seek to
\* offset 0: nothing buffered, nothing read.
NewReader == [buf |-> <<>>, off |-> 0, calls |-> 0]

\* bufio's ReadBytes('\n') on the reader rd over a file holding c: the line up
\* to and with the first newline; when a read fails or meets the end before
\* one, what is buffered together with that error.
RECURSIVE ReadBytesWithFault(_, _, _)
ReadBytesWithFault(c, rd, fault) ==
    LET i == IndexNL(rd.buf, 1)
    IN  IF i > 0
        THEN [line |-> SubSeq(rd.buf, 1, i), err |-> "nil",
              rd |-> [rd EXCEPT !.buf = SubSeq(rd.buf, i + 1, Len(rd.buf))]]
        ELSE LET x == SysRead(c, rd.off, rd.calls, fault)
             IN  IF x.err # "nil"
                 THEN [line |-> rd.buf, err |-> x.err,
                       rd |-> [rd EXCEPT !.buf = <<>>, !.calls = rd.calls + 1]]
                 ELSE ReadBytesWithFault(c, [buf |-> rd.buf \o x.data,
                                             off |-> rd.off + Len(x.data),
                                             calls |-> rd.calls + 1], fault)

\* ioutil.ReadAll on the reader: it reads until an error, and io.EOF is none.
RECURSIVE ReadAllWithFault(_, _, _, _)
ReadAllWithFault(c, rd, fault, data) ==
    LET x == SysRead(c, rd.off, rd.calls, fault)
    IN  IF x.err = "EOF" THEN [data |-> data, err |-> "nil"]
        ELSE IF x.err # "nil" THEN [data |-> data, err |-> x.err]
        ELSE ReadAllWithFault(c, [rd EXCEPT !.off = rd.off + Len(x.data),
                                            !.calls = rd.calls + 1], fault, data \o x.data)

\* (*os.File).Read at offset off into a fresh make([]byte, k), as Delete
\* issues it: no call is made for an empty slice.
FileReadWithFault(c, off, k, calls, fault) ==
    IF k = 0 THEN [data |-> <<>>, n |-> 0, err |-> "nil", calls |-> calls]
    ELSE IF Fails(fault, calls)
    THEN [data |-> Zeros(k), n |-> 0, err |-> EIO, calls |-> calls + 1]
    ELSE [data |-> FileRead(c, off, k).data, n |-> FileRead(c, off, k).n,
          err |-> FileRead(c, off, k).err, calls |-> calls + 1]

\* Editer.Delete on a file holding c whose reads may fail.
DeleteWithFault(c, begin, end, fault) ==
    LET size == Len(c)
        head == FileReadWithFault(c, 0, begin, 0, fault)
        tail == FileReadWithFault(c, end, size - (end - begin), head.calls, fault)
    IN  IF head.err # "nil" THEN Result(head.err, FALSE, <<>>, head.n)
        ELSE IF tail.err # "nil" THEN Result(tail.err, FALSE, <<>>, head.n + tail.n)
        ELSE rewrite(head.data \o tail.data, head.n + tail.n)

\* The loop of Comment over the lines when reads may fail: only io.EOF ends
\* it. What ReadBytes returns with another error is handled as a line, and
\* the loop goes on reading; it never ends when every later read fails too.
RECURSIVE CommentLoopWithFault(_, _, _, _, _, _, _)
CommentLoopWithFault(c, rd, fault, allReSearch, char, buf, isNew) ==
    LET rb == ReadBytesWithFault(c, rd, fault)
    IN  IF rb.err = "EOF" THEN [buf |-> buf, isNew |-> isNew, loops |-> FALSE, read |-> rb.rd.off]
        ELSE IF rb.err = EIO /\ fault.again
        THEN [buf |-> buf, isNew |-> isNew, loops |-> TRUE, read |-> rb.rd.off]
        ELSE LET l == CommentLine(rb.line, allReSearch, 1, char)
             IN  CommentLoopWithFault(c, rb.rd, fault, allReSearch, char,
                                      buf \o l.line, isNew \/ l.isNew)

\* Editer.Comment on a file holding c whose reads may fail.
CommentWithFault(c, cf, reLine, fault) ==
    IF NoComment(cf) THEN Result("errComment", FALSE, <<>>, 0)
    ELSE IF CompileAll(reLine, 1) # "nil" THEN Result(CompileAll(reLine, 1), FALSE, <<>>, 0)
    ELSE LET l == CommentLoopWithFault(c, NewReader, fault, reLine, cf.Comment \o <<SP>>,
                                       <<>>, FALSE)
         IN  IF l.loops THEN Result(Looping, FALSE, <<>>, l.read)
             ELSE IF l.isNew THEN rewrite(l.buf, l.read)
             ELSE Result("nil", FALSE, <<>>, l.read)

\* Editer.genReplace on a file holding c whose reads may fail.
genReplaceWithFault(c, r, n, fault) ==
    IF n = 0 THEN Result("nil", FALSE, <<>>, 0)
    ELSE LET content == ReadAllWithFault(c, NewReader, fault, <<>>)
             l == ReplaceLoop(content.data, r, 1, n, FALSE)
         IN  IF content.err # "nil" THEN Result(content.err, FALSE, <<>>, Len(content.data))
             ELSE IF l.err # "nil" THEN Result(l.err, FALSE, <<>>, Len(content.data))
             ELSE IF l.isNew THEN rewrite(l.content, Len(content.data))
             ELSE Result("nil", FALSE, <<>>, Len(content.data))

\* The loop of genReplaceAtLine over the lines when reads may fail: as the
\* loop of Comment, only io.EOF ends it.
RECURSIVE ReplaceAtLineLoopWithFault(_, _, _, _, _, _, _)
ReplaceAtLineLoopWithFault(c, rd, fault, r, n, buf, isNew) ==
    LET rb == ReadBytesWithFault(c, rd, fault)
    IN  IF rb.err = "EOF" THEN [buf |-> buf, isNew |-> isNew, loops |-> FALSE, read |-> rb.rd.off]
        ELSE IF rb.err = EIO /\ fault.again
        THEN [buf |-> buf, isNew |-> isNew, loops |-> TRUE, read |-> rb.rd.off]
        ELSE LET l == ReplaceLine(rb.line, r, 1, n, FALSE)
             IN  ReplaceAtLineLoopWithFault(c, rb.rd, fault, r, n,
                                            buf \o l.line, isNew \/ l.isNew)

\* Editer.genReplaceAtLine on a file holding c whose reads may fail.
genReplaceAtLineWithFault(c, r, n, fault) ==
    IF n = 0 THEN Result("nil", FALSE, <<>>, 0)
    ELSE IF CompileAtLine(r, 1) # "nil" THEN Result(CompileAtLine(r, 1), FALSE, <<>>, 0)
    ELSE LET l == ReplaceAtLineLoopWithFault(c, NewReader, fault, r, n, <<>>, FALSE)
         IN  IF l.loops THEN Result(Looping, FALSE, <<>>, l.read)
             ELSE IF l.isNew THEN rewrite(l.buf, l.read)
             ELSE Result("nil", FALSE, <<>>, l.read)

\* Editer.CommentOut on a file holding c whose reads may fail.
CommentOutWithFault(c, cf, reLine, fault) ==
    IF NoComment(cf) THEN Result("errComment", FALSE, <<>>, 0)
    ELSE genReplaceAtLineWithFault(c, AllSearch(reLine, cf.Comment), 1, fault)

\* ------------------------------------------------------------------ inputs

\* ModBackup of the ModeEdit flags.
ModBackup == 1

\* A *ConfEditer: nil, or a configuration.
NilConf == [nil |-> TRUE, Comment |-> <<>>, Mode |-> 0]
Conf(comment, mode) == [nil |-> FALSE, Comment |-> comment, Mode |-> mode]
ConfSet == {NilConf, Conf(<<>>, 2), Conf(<<"#">>, 0), Conf(<<"#">>, ModBackup)}

\* Regular expressions a caller passes: two that match one byte, the empty
\* one (it matches everywhere) and one that does not compile.
PatternSet == {<<"a">>, <<"#">>, <<>>, <<BadTok>>}
PatternLists == SeqsUpTo(PatternSet, MaxEntries)

Replacer(search, replace) == [Search |-> search, Replace |-> replace]
ReplacerSet ==
    {Replacer(<<"a">>, <<"#">>), Replacer(<<"#">>, <<"a">>), Replacer(<<>>, <<"#">>),
     Replacer(<<BadTok>>, <<"a">>)}
ReplacerLists == SeqsUpTo(ReplacerSet, MaxEntries)

ReplacerAtLine(line, search, replace) ==
    [Line |-> line, Search |-> search, Replace |-> replace]
ReplacerAtLineSet ==
    {ReplacerAtLine(<<"a">>, <<"a">>, <<"#">>), ReplacerAtLine(<<"#">>, <<"a">>, <<>>),
     ReplacerAtLine(<<>>, <<"#">>, <<"a">>), ReplacerAtLine(<<"a">>, <<BadTok>>, <<"a">>),
     ReplacerAtLine(<<BadTok>>, <<"a">>, <<"a">>)}
ReplacerAtLineLists == SeqsUpTo(ReplacerAtLineSet, MaxEntries)

\* The match limits n a caller passes.
Limits == -1..MaxN

\* The bytes a caller appends.
AppendSet == {<<>>, <<"a">>, <<NL, "#">>}

\* ------------------------------------------------------------------- state

VARIABLES
    disk,       \* the bytes of the file F being edited
    disk0,      \* the bytes F held when NewEdit was called
    backup,     \* the bytes of F's backup file, or NoFile
    conf,       \* the *ConfEditer handed to NewEdit
    pc,         \* "new", "opening", "failed", "idle", "returned", "looping", "closed"
    opened,     \* whether F has been opened read-write
    backups,    \* how many times NewEdit called Backup
    newErr,     \* the error NewEdit returned: "nil", "backup" or "open"
    last,       \* the Editer method that has just returned, with its result
    saved       \* the method the caller ran before that one on the same Editer

vars == <<disk, disk0, backup, conf, pc, opened, backups, newErr, last, saved>>

NoFile == "no file"
NoArgs ==
    [reLine |-> <<>>, r |-> <<>>, n |-> 0, begin |-> 0, end |-> 0, b |-> <<>>,
     fault |-> NoFault]
NoCall == [op |-> "none", args |-> NoArgs, pre |-> <<>>, res |-> Result("nil", FALSE, <<>>, 0)]

Init ==
    /\ disk \in SeqsUpTo(FileBytes, MaxLen)
    /\ disk0 = disk
    /\ conf \in ConfSet
    /\ backup = NoFile
    /\ pc = "new"
    /\ opened = FALSE
    /\ backups = 0
    /\ newErr = "nil"
    /\ last = NoCall
    /\ saved = NoCall

\* ----------------------------------------------------------------- NewEdit

HasFlag(mode, flag) == (mode \div flag) % 2 = 1

\* The condition under which NewEdit makes a backup.
WantsBackup(cf) == ~cf.nil /\ HasFlag(cf.Mode, ModBackup)

\* Backup(filename): copies F to its backup file, or fails and leaves no copy.
Backup(ok) == IF ok THEN [err |-> "nil", file |-> disk] ELSE [err |-> "backup", file |-> backup]

\* NewEdit, first half: the backup, when the mode asks for one. On its error
\* NewEdit returns that error and no Editer.
NewEditBackup ==
    /\ pc = "new"
    /\ WantsBackup(conf)
    /\ \E ok \in BOOLEAN :
          LET b == Backup(ok)
          IN  /\ backup' = b.file
              /\ newErr' = b.err
              /\ pc' = IF b.err = "nil" THEN "opening" ELSE "failed"
    /\ backups' = backups + 1
    /\ UNCHANGED <<disk, disk0, conf, opened, last, saved>>

\* NewEdit opening F without waiting for the backup.
AtOpenWithoutBackup == pc \in {"new", "opening"}

\* Where NewEdit reaches os.OpenFile: after the backup, or at once when no
\* backup is asked for.
AtOpen == pc = "opening" \/ (pc = "new" /\ ~WantsBackup(conf))

\* NewEdit, second half: os.OpenFile(filename, O_RDWR), which may fail.
NewEditOpen ==
    /\ AtOpen
    /\ \E ok \in BOOLEAN :
          /\ opened' = ok
          /\ newErr' = IF ok THEN "nil" ELSE "open"
          /\ pc' = IF ok THEN "idle" ELSE "failed"
    /\ UNCHANGED <<disk, disk0, backup, conf, backups, last, saved>>

\* ----------------------------------------------------------- Editer methods

\* A method of the open Editer runs and returns res.
Call(op, args, res) ==
    /\ pc' = "returned"
    /\ disk' = IF res.commit THEN res.out ELSE disk
    /\ last' = [op |-> op, args |-> args, pre |-> disk, res |-> res]
    /\ UNCHANGED <<disk0, backup, conf, opened, backups, newErr, saved>>

\* Editer.Append: seek to the end, write b.
EdAppend ==
    /\ pc = "idle"
    /\ \E b \in AppendSet :
        /\ pc' = "returned"
        /\ disk' = disk \o b
        /\ last' = [op |-> "Append", args |-> [NoArgs EXCEPT !.b = b], pre |-> disk,
                    res |-> Result("nil", FALSE, <<>>, 0)]
        /\ UNCHANGED <<disk0, backup, conf, opened, backups, newErr, saved>>

EdDelete ==
    /\ pc = "idle"
    /\ \E begin \in 0..Len(disk) : \E end \in begin..Len(disk) :
        Call("Delete", [NoArgs EXCEPT !.begin = begin, !.end = end], Delete(disk, begin, end))

EdComment ==
    /\ pc = "idle"
    /\ \E reLine \in PatternLists :
        Call("Comment", [NoArgs EXCEPT !.reLine = reLine], Comment(disk, conf, reLine))

EdCommentOut ==
    /\ pc = "idle"
    /\ \E reLine \in PatternLists :
        Call("CommentOut", [NoArgs EXCEPT !.reLine = reLine, !.n = 1],
             CommentOut(disk, conf, reLine))

EdReplace ==
    /\ pc = "idle"
    /\ \E r \in ReplacerLists :
        Call("Replace", [NoArgs EXCEPT !.r = r, !.n = -1], genReplace(disk, r, -1))

EdReplaceN ==
    /\ pc = "idle"
    /\ \E r \in ReplacerLists : \E n \in Limits :
        Call("ReplaceN", [NoArgs EXCEPT !.r = r, !.n = n], genReplace(disk, r, n))

EdReplaceAtLine ==
    /\ pc = "idle"
    /\ \E r \in ReplacerAtLineLists :
        Call("ReplaceAtLine", [NoArgs EXCEPT !.r = r, !.n = -1], genReplaceAtLine(disk, r, -1))

EdReplaceAtLineN ==
    /\ pc = "idle"
    /\ \E r \in ReplacerAtLineLists : \E n \in Limits :
        Call("ReplaceAtLineN", [NoArgs EXCEPT !.r = r, !.n = n], genReplaceAtLine(disk, r, n))

\* Editer.Close: the caller is done with the Editer.
EdClose ==
    /\ pc \in {"idle", "returned"}
    /\ pc' = "closed"
    /\ opened' = FALSE
    /\ last' = NoCall
    /\ saved' = NoCall
    /\ UNCHANGED <<disk, disk0, backup, conf, backups, newErr>>

Next ==
    \/ NewEditBackup
    \/ NewEditOpen
    \/ EdAppend
    \/ EdDelete
    \/ EdComment
    \/ EdCommentOut
    \/ EdReplace
    \/ EdReplaceN
    \/ EdReplaceAtLine
    \/ EdReplaceAtLineN
    \/ EdClose

Spec == Init /\ [][Next]_vars

\* -------------------------------------------- two comment calls on one Editer

\* The caller, having seen a method return, goes on to call a second one.
Continue ==
    /\ pc = "returned"
    /\ saved = NoCall
    /\ pc' = "idle"
    /\ saved' = last
    /\ last' = NoCall
    /\ UNCHANGED <<disk, disk0, backup, conf, opened, backups, newErr>>

\* An open Editer whose configuration holds a comment character.
InitOpen ==
    /\ disk \in SeqsUpTo(FileBytes, MaxLen)
    /\ disk0 = disk
    /\ conf \in {cf \in ConfSet : ~NoComment(cf)}
    /\ backup = IF WantsBackup(conf) THEN disk ELSE NoFile
    /\ pc = "idle"
    /\ opened = TRUE
    /\ backups = IF WantsBackup(conf) THEN 1 ELSE 0
    /\ newErr = "nil"
    /\ last = NoCall
    /\ saved = NoCall

NextComments ==
    \/ EdComment
    \/ EdCommentOut
    \/ Continue
    \/ EdClose

SpecComments == InitOpen /\ [][NextComments]_vars

\* ------------------------------------------ methods on a file whose reads fail

\* A method of the open Editer runs on a file whose reads may fail: it
\* returns res, or never returns.
CallWithFault(op, args, res) ==
    /\ pc' = IF res.err = Looping THEN "looping" ELSE "returned"
    /\ disk' = IF res.commit THEN res.out ELSE disk
    /\ last' = [op |-> op, args |-> args, pre |-> disk, res |-> res]
    /\ UNCHANGED <<disk0, backup, conf, opened, backups, newErr, saved>>

DeleteWithReadError ==
    /\ pc = "idle"
    /\ \E begin \in 0..Len(disk) : \E end \in begin..Len(disk) : \E fault \in FaultSet :
        CallWithFault("Delete", [NoArgs EXCEPT !.begin = begin, !.end = end, !.fault = fault],
                      DeleteWithFault(disk, begin, end, fault))

CommentWithReadError ==
    /\ pc = "idle"
    /\ \E reLine \in PatternLists : \E fault \in FaultSet :
        CallWithFault("Comment", [NoArgs EXCEPT !.reLine = reLine, !.fault = fault],
                      CommentWithFault(disk, conf, reLine, fault))

CommentOutWithReadError ==
    /\ pc = "idle"
    /\ \E reLine \in PatternLists : \E fault \in FaultSet :
        CallWithFault("CommentOut", [NoArgs EXCEPT !.reLine = reLine, !.n = 1, !.fault = fault],
                      CommentOutWithFault(disk, conf, reLine, fault))

ReplaceWithReadError ==
    /\ pc = "idle"
    /\ \E r \in ReplacerLists : \E fault \in FaultSet :
        CallWithFault("Replace", [NoArgs EXCEPT !.r = r, !.n = -1, !.fault = fault],
                      genReplaceWithFault(disk, r, -1, fault))

ReplaceNWithReadError ==
    /\ pc = "idle"
    /\ \E r \in ReplacerLists : \E n \in Limits : \E fault \in FaultSet :
        CallWithFault("ReplaceN", [NoArgs EXCEPT !.r = r, !.n = n, !.fault = fault],
                      genReplaceWithFault(disk, r, n, fault))

ReplaceAtLineWithReadError ==
    /\ pc = "idle"
    /\ \E r \in ReplacerAtLineLists : \E fault \in FaultSet :
        CallWithFault("ReplaceAtLine", [NoArgs EXCEPT !.r = r, !.n = -1, !.fault = fault],
                      genReplaceAtLineWithFault(disk, r, -1, fault))

ReplaceAtLineNWithReadError ==
    /\ pc = "idle"
    /\ \E r \in ReplacerAtLineLists : \E n \in Limits : \E fault \in FaultSet :
        CallWithFault("ReplaceAtLineN", [NoArgs EXCEPT !.r = r, !.n = n, !.fault = fault],
                      genReplaceAtLineWithFault(disk, r, n, fault))

NextReadErrors ==
    \/ DeleteWithReadError
    \/ CommentWithReadError
    \/ CommentOutWithReadError
    \/ ReplaceWithReadError
    \/ ReplaceNWithReadError
    \/ ReplaceAtLineWithReadError
    \/ ReplaceAtLineNWithReadError
    \/ EdClose

SpecReadErrors == InitOpen /\ [][NextReadErrors]_vars

\* ------------------------------------------------ what the claims speak of

\* p occurs in s (p a sequence of bytes; the empty one occurs everywhere).
Contains(s, p) == \E i \in 0..(Len(s) - Len(p)) : Slice(s, i, i + Len(p)) = p

\* Number of occurrences of the bytes m in s.
Occurrences(s, m) == Cardinality({i \in 0..(Len(s) - Len(m)) : Slice(s, i, i + Len(m)) = m})

\* The expression holds an unbalanced parenthesis: it is no regular expression.
Malformed(re) == \E k \in DOMAIN re : re[k] = BadTok

\* The lines of c in order: each ends with its newline, but for a last line
\* that has none.
RECURSIVE AllLines(_)
AllLines(c) ==
    IF c = <<>> THEN <<>>
    ELSE LET k == IF \E i \in DOMAIN c : c[i] = NL
                  THEN CHOOSE i \in DOMAIN c : c[i] = NL /\ \A h \in 1..(i - 1) : c[h] # NL
                  ELSE Len(c)
         IN  <<SubSeq(c, 1, k)>> \o AllLines(SubSeq(c, k + 1, Len(c)))

\* Every line of c ends with a newline.
Terminated(c) == c = <<>> \/ c[Len(c)] = NL

\* s with its leftmost occurrences of the bytes p replaced by repl, one after
\* the other from the left: all of them when n < 0, at most n when n > 0.
RECURSIVE SubstBytes(_, _, _, _)
SubstBytes(s, p, repl, n) ==
    IF n = 0 \/ Len(s) < Len(p) THEN s
    ELSE IF SubSeq(s, 1, Len(p)) = p
    THEN repl \o SubstBytes(SubSeq(s, Len(p) + 1, Len(s)), p, repl, n - 1)
    ELSE <<Head(s)>> \o SubstBytes(Tail(s), p, repl, n)

\* The same for the empty expression, which matches before every byte and at
\* the end.
RECURSIVE SubstEmpty(_, _, _)
SubstEmpty(s, repl, n) ==
    IF n = 0 THEN s
    ELSE IF s = <<>> THEN repl
    ELSE repl \o <<Head(s)>> \o SubstEmpty(Tail(s), repl, n - 1)

\* The same for the expression of CommentOut: the comment character m with
\* the white space on both sides of it.
RECURSIVE SubstComment(_, _, _, _)
SubstComment(s, m, repl, n) ==
    IF n = 0 \/ ~Contains(s, m) THEN s
    ELSE LET at == CHOOSE i \in 0..(Len(s) - Len(m)) :
                      /\ Slice(s, i, i + Len(m)) = m
                      /\ \A h \in 0..(i - 1) : Slice(s, h, h + Len(m)) # m
             from == CHOOSE t \in 0..at :
                      /\ \A h \in (t + 1)..at : s[h] \in {SP, NL}
                      /\ (t = 0 \/ s[t] \notin {SP, NL})
             to == CHOOSE e \in (at + Len(m))..Len(s) :
                      /\ \A h \in (at + Len(m) + 1)..e : s[h] \in {SP, NL}
                      /\ (e = Len(s) \/ s[e + 1] \notin {SP, NL})
         IN  Slice(s, 0, from) \o repl \o SubstComment(Slice(s, to, Len(s)), m, repl, n - 1)

IsCommentExpr(re) ==
    Len(re) >= 2 /\ re[1] = SpaceStar /\ re[Len(re)] = SpaceStar

Subst(s, search, repl, n) ==
    IF IsCommentExpr(search) THEN SubstComment(s, SubSeq(search, 2, Len(search) - 1), repl, n)
    ELSE IF search = <<>> THEN SubstEmpty(s, repl, n)
    ELSE SubstBytes(s, search, repl, n)

Found(s, search) ==
    IF IsCommentExpr(search) THEN Contains(s, SubSeq(search, 2, Len(search) - 1))
    ELSE Contains(s, search)

\* Whole-content replace as the claims state it: entry after entry, each on
\* the output of the one before, each with the limit n for itself.
RECURSIVE ExpReplace(_, _, _, _)
ExpReplace(c, r, k, n) ==
    IF k > Len(r) THEN c
    ELSE ExpReplace(Subst(c, r[k].Search, r[k].Replace, n), r, k + 1, n)

\* Some entry, at its turn, finds a match.
RECURSIVE ExpMatched(_, _, _, _)
ExpMatched(c, r, k, n) ==
    IF k > Len(r) THEN FALSE
    ELSE \/ Found(c, r[k].Search)
         \/ ExpMatched(Subst(c, r[k].Search, r[k].Replace, n), r, k + 1, n)

\* Line-scoped replace of one line as the claims state it: every entry whose
\* Line expression matches the line replaces in it, with the limit n for itself.
RECURSIVE ExpLine(_, _, _, _)
ExpLine(line, r, k, n) ==
    IF k > Len(r) THEN line
    ELSE ExpLine(IF Contains(line, r[k].Line)
                 THEN Subst(line, r[k].Search, r[k].Replace, n)
                 ELSE line, r, k + 1, n)

RECURSIVE ExpLines(_, _, _, _)
ExpLines(lines, k, r, n) ==
    IF k > Len(lines) THEN <<>>
    ELSE ExpLine(lines[k], r, 1, n) \o ExpLines(lines, k + 1, r, n)

\* Line-scoped replace of the content c: every line of it, the last one too.
ExpAtLine(c, r, n) == ExpLines(AllLines(c), 1, r, n)

\* Some expression of reLine matches the line.
Selected(line, reLine) == \E k \in DOMAIN reLine : Contains(line, reLine[k])

RECURSIVE ExpCommentLines(_, _, _, _)
ExpCommentLines(lines, k, reLine, comment) ==
    IF k > Len(lines) THEN <<>>
    ELSE (IF Selected(lines[k], reLine) THEN comment \o <<SP>> \o lines[k] ELSE lines[k])
         \o ExpCommentLines(lines, k + 1, reLine, comment)

\* Comment of the content c: every selected line prefixed once.
ExpComment(c, reLine, comment) == ExpCommentLines(AllLines(c), 1, reLine, comment)

\* The entries the method that has just returned worked with.
Entries == IF last.op = "CommentOut" THEN AllSearch(last.args.reLine, conf.Comment) ELSE last.args.r

ReplaceOps == {"Replace", "ReplaceN"}
AtLineOps == {"ReplaceAtLine", "ReplaceAtLineN"}
CommentOps == {"Comment", "CommentOut"}
PatternOps == ReplaceOps \cup AtLineOps \cup CommentOps

\* The call that has just returned was given a limit of 0.
LimitZero == last.op \in {"ReplaceN", "ReplaceAtLineN"} /\ last.args.n = 0

\* One of the expressions of the call that has just returned does not compile.
SomeMalformed ==
    \/ last.op \in ReplaceOps /\ \E k \in DOMAIN last.args.r : Malformed(last.args.r[k].Search)
    \/ last.op \in AtLineOps /\ \E k \in DOMAIN last.args.r :
          Malformed(last.args.r[k].Line) \/ Malformed(last.args.r[k].Search)
    \/ last.op \in CommentOps /\ \E k \in DOMAIN last.args.reLine : Malformed(last.args.reLine[k])

\* The call that has just returned needs a comment character and has none.
MarkerMissing == last.op \in CommentOps /\ (conf.nil \/ conf.Comment = <<>>)

\* Nothing the call that has just returned looks for is in the file it found.
NoMatch ==
    \/ last.op \in ReplaceOps /\ \A k \in DOMAIN last.args.r : ~Contains(last.pre, last.args.r[k].Search)
    \/ last.op \in AtLineOps /\ \A i \in DOMAIN AllLines(last.pre) : \A k \in DOMAIN last.args.r :
          ~(Contains(AllLines(last.pre)[i], last.args.r[k].Line)
              /\ Contains(AllLines(last.pre)[i], last.args.r[k].Search))
    \/ last.op = "Comment" /\ \A i \in DOMAIN AllLines(last.pre) :
          ~Selected(AllLines(last.pre)[i], last.args.reLine)
    \/ last.op = "CommentOut" /\ \A i \in DOMAIN AllLines(last.pre) :
          ~(Selected(AllLines(last.pre)[i], last.args.reLine)
              /\ Contains(AllLines(last.pre)[i], conf.Comment))

\* ------------------------------------------------------------------ claims

\* C1: Delete(begin, end) with 0 <= begin <= end <= len(C) returns no error,
\* commits, and leaves C[0:begin] followed by C[end:].
C1_DeleteLeavesTheRest ==
    last.op = "Delete" =>
        /\ last.res.err = "nil"
        /\ last.res.commit
        /\ disk = Slice(last.pre, 0, last.args.begin) \o Slice(last.pre, last.args.end, Len(last.pre))

\* C2: Replace and ReplaceN with n # 0 leave the content folded over the
\* entries in order, each entry applied to the output of the one before and
\* replacing, from the left, all its matches (n < 0) or min(n, its matches)
\* of them (n > 0), the limit counted anew for each entry; the content is
\* committed when some entry found a match.
C2_ReplaceFoldsOverEntries ==
    (last.op \in ReplaceOps /\ last.args.n # 0 /\ ~SomeMalformed) =>
        /\ last.res.err = "nil"
        /\ last.res.commit = ExpMatched(last.pre, last.args.r, 1, last.args.n)
        /\ last.res.commit => last.res.out = ExpReplace(last.pre, last.args.r, 1, last.args.n)
        /\ disk = ExpReplace(last.pre, last.args.r, 1, last.args.n)

\* C2, its case: two entries that each match more than n = 1 times make two
\* replacements, one each.
C2_Witness ==
    /\ last.op = "ReplaceN"
    /\ last.args.n = 1
    /\ last.args.r = <<Replacer(<<"a">>, <<"#">>), Replacer(<<"a">>, <<"#">>)>>
    /\ last.pre = <<"a", "a", "a">>
    /\ last.res.commit
    /\ disk = <<"#", "#", "a">>

\* C3: ReplaceAtLineN with n > 0 replaces, in every line an entry's Line
\* expression matches, the leftmost min(n, matches in that line) matches of
\* that entry, the limit counted anew for every line and entry, and nothing
\* in the lines it does not match.
C3_LimitPerLinePerEntry ==
    (last.op = "ReplaceAtLineN" /\ last.args.n > 0 /\ ~SomeMalformed) =>
        /\ last.res.err = "nil"
        /\ disk = ExpAtLine(last.pre, last.args.r, last.args.n)

\* C3 as it holds of the code: for a file whose lines all end with a newline.
LimitPerLinePerEntryOfTerminated ==
    (last.op = "ReplaceAtLineN" /\ last.args.n > 0 /\ ~SomeMalformed /\ Terminated(last.pre)) =>
        /\ last.res.err = "nil"
        /\ disk = ExpAtLine(last.pre, last.args.r, last.args.n)

\* C4: when a line-by-line operation commits, every line it read is in the
\* committed content, in order, replaced or unchanged, the last line without
\* a newline too.
C4_EveryLineWrittenBack ==
    (last.op \in AtLineOps \cup {"CommentOut"} /\ last.res.commit) =>
        disk = ExpAtLine(last.pre, Entries, last.args.n)

\* C4 as it holds of the code: for a file whose lines all end with a newline.
EveryLineWrittenBackOfTerminated ==
    (last.op \in AtLineOps \cup {"CommentOut"} /\ last.res.commit /\ Terminated(last.pre)) =>
        disk = ExpAtLine(last.pre, Entries, last.args.n)

\* C5: a replace, comment or comment-out call that finds no match anywhere in
\* the file, or is given the limit 0, does not commit and leaves the file's
\* bytes as they were; it returns no error (the limit 0 before any read)
\* unless an expression does not compile or the comment character is missing.
C5_NoMatchNoCommit ==
    (last.op \in PatternOps /\ (LimitZero \/ NoMatch)) =>
        /\ ~last.res.commit
        /\ disk = last.pre
        /\ LimitZero => last.res.err = "nil" /\ last.res.read = 0
        /\ (~SomeMalformed /\ ~MarkerMissing) => last.res.err = "nil"

\* C5, its case: a line selected by the Line expression, in which the Search
\* expression finds nothing.
C5_Witness ==
    /\ last.op = "ReplaceAtLineN"
    /\ last.args.n = 2
    /\ last.args.r = <<ReplacerAtLine(<<"#">>, <<"a">>, <<>>)>>
    /\ last.pre = <<"#", NL>>
    /\ NoMatch
    /\ last.res.err = "nil"
    /\ disk = last.pre

\* C6: Comment with a comment character prefixes every line that matches one
\* of the expressions with the character and a space, once, leaves the other
\* lines as they are, and commits only when a line was prefixed.
C6_CommentPrefixesMatchingLines ==
    (last.op = "Comment" /\ ~MarkerMissing /\ ~SomeMalformed) =>
        /\ last.res.err = "nil"
        /\ disk = ExpComment(last.pre, last.args.reLine, conf.Comment)
        /\ last.res.commit =
              (\E i \in DOMAIN AllLines(last.pre) : Selected(AllLines(last.pre)[i], last.args.reLine))

\* C6 as it holds of the code: for a file whose lines all end with a newline.
CommentPrefixesLinesOfTerminated ==
    (last.op = "Comment" /\ ~MarkerMissing /\ ~SomeMalformed /\ Terminated(last.pre)) =>
        /\ last.res.err = "nil"
        /\ disk = ExpComment(last.pre, last.args.reLine, conf.Comment)
        /\ last.res.commit =
              (\E i \in DOMAIN AllLines(last.pre) : Selected(AllLines(last.pre)[i], last.args.reLine))

\* The file holds one line, ended by its newline.
OneLine(c) == Len(c) > 0 /\ c[Len(c)] = NL /\ \A i \in 1..(Len(c) - 1) : c[i] # NL

\* C7: CommentOut takes at most one comment character out of a line, whatever
\* the list of expressions (stated for a file of one line).
C7_AtMostOneMarkerPerLine ==
    (last.op = "CommentOut" /\ last.res.err = "nil" /\ OneLine(last.pre)) =>
        Occurrences(disk, conf.Comment) >= Occurrences(last.pre, conf.Comment) - 1

\* C7 as it holds of the code: one comment character for every expression
\* that matches the line.
AtMostOneMarkerPerExpression ==
    (last.op = "CommentOut" /\ last.res.err = "nil" /\ OneLine(last.pre)) =>
        Occurrences(disk, conf.Comment) >=
            Occurrences(last.pre, conf.Comment) - Len(last.args.reLine)

\* Comment and then CommentOut ran on one Editer, with the same expressions,
\* and both returned no error.
CommentThenCommentOut ==
    /\ saved.op = "Comment" /\ last.op = "CommentOut"
    /\ saved.args.reLine = last.args.reLine
    /\ saved.res.err = "nil" /\ last.res.err = "nil"

\* Every line of c that the expressions match: without the comment character
\* (and, with plain, not starting with white space either).
MatchedLinesClean(c, reLine, plain) ==
    \A i \in DOMAIN AllLines(c) :
        Selected(AllLines(c)[i], reLine) =>
            /\ ~Contains(AllLines(c)[i], conf.Comment)
            /\ plain => AllLines(c)[i][1] \notin {SP, NL}

\* C8 to the letter: Comment and then CommentOut with the same expressions, on
\* one Editer with a comment character, give back the content there was before
\* Comment, when no line the expressions match held the comment character.
RoundTripToTheLetter ==
    (CommentThenCommentOut /\ MatchedLinesClean(saved.pre, last.args.reLine, FALSE))
        => disk = saved.pre

\* C8: the same round trip, read with the proviso of the specification's
\* sentence (no white space next to the comment character: the matched lines
\* do not start with white space).
C8_CommentThenCommentOut ==
    (CommentThenCommentOut /\ MatchedLinesClean(saved.pre, last.args.reLine, TRUE))
        => disk = saved.pre

\* C8 as it holds of the code: when, moreover, every line ends with a newline.
RoundTripOfTerminated ==
    (/\ CommentThenCommentOut
     /\ MatchedLinesClean(saved.pre, last.args.reLine, TRUE)
     /\ Terminated(saved.pre))
        => disk = saved.pre

\* The configuration asks for a backup: it is there and its Mode has the
\* ModBackup bit.
BackupModeSet == ~conf.nil /\ conf.Mode \in {1, 3}

\* C9: with the backup mode NewEdit has the backup made, and waits for it to
\* succeed, before it opens F: whenever F is or has been open the backup holds
\* the bytes F had; when the backup fails NewEdit returns the error, F is
\* never opened, no method runs and F's bytes stay; without the backup mode
\* (or with a nil configuration) Backup is never called.
C9_BackupBeforeOpen ==
    /\ (BackupModeSet /\ (opened \/ pc \in {"idle", "returned", "closed"})) =>
          backups = 1 /\ backup = disk0
    /\ pc \in {"idle", "returned"} => opened
    /\ newErr = "backup" =>
          pc = "failed" /\ ~opened /\ backup = NoFile /\ last = NoCall /\ disk = disk0
    /\ pc \in {"new", "opening", "failed"} => ~opened /\ disk = disk0
    /\ ~BackupModeSet => backups = 0 /\ backup = NoFile

\* C9, its case: the backup mode is set, F is open and a method has changed
\* it, and the backup holds what F held.
C9_Witness ==
    /\ BackupModeSet
    /\ opened
    /\ pc = "returned"
    /\ disk # disk0
    /\ disk0 # <<>>
    /\ backup = disk0

\* C10: a missing comment character, or an expression that does not compile
\* at any place of the list, makes the call return an error before one byte
\* of the file is read, and without a commit.
C10_ErrorsBeforeAnyRead ==
    (last.op \in PatternOps /\ ~LimitZero /\ (MarkerMissing \/ SomeMalformed)) =>
        /\ last.res.err # "nil"
        /\ last.res.read = 0
        /\ ~last.res.commit
        /\ disk = last.pre

\* C10 as amended: the call returns an error and does not commit, so the file
\* stays as it was; Comment, CommentOut and ReplaceAtLine(N) have read nothing
\* by then, while Replace(N) has read the whole content, and compiles each
\* expression only at its entry's turn.
C10_ErrorsBeforeAnyCommit ==
    (last.op \in PatternOps /\ ~LimitZero /\ (MarkerMissing \/ SomeMalformed)) =>
        /\ last.res.err # "nil"
        /\ ~last.res.commit
        /\ disk = last.pre
        /\ last.op \notin ReplaceOps => last.res.read = 0
        /\ last.op \in ReplaceOps => last.res.read = Len(last.pre)

\* C10, its case: the second entry's Search does not compile, and the first
\* entry's Line and Search match the file.
C10_Witness ==
    /\ last.op = "ReplaceAtLine"
    /\ last.args.r = <<ReplacerAtLine(<<"a">>, <<"a">>, <<"#">>),
                       ReplacerAtLine(<<"a">>, <<BadTok>>, <<"a">>)>>
    /\ last.pre = <<"a", NL>>
    /\ last.res.err = "regexp"
    /\ last.res.read = 0
    /\ disk = last.pre

\* The call recorded in last gets as far as reading the file: Delete always,
\* Replace(N) unless the limit is 0, the others when moreover the comment
\* character is there and every expression compiles.
ReachesRead ==
    \/ last.op = "Delete"
    \/ last.op \in ReplaceOps /\ ~LimitZero
    \/ last.op \in AtLineOps \cup CommentOps /\ ~LimitZero /\ ~MarkerMissing /\ ~SomeMalformed

\* The read calls the recorded call makes on its file when none of them fails.
ReadCalls ==
    IF last.op = "Delete"
    THEN (IF last.args.begin > 0 THEN 1 ELSE 0)
         + (IF Len(last.pre) - (last.args.end - last.args.begin) > 0 THEN 1 ELSE 0)
    ELSE IF last.pre = <<>> THEN 1 ELSE 2

\* A read of the file failed, with an error other than io.EOF, during the
\* recorded call.
ReadFailed ==
    /\ last.op # "none"
    /\ ReachesRead
    /\ last.args.fault.call \in 1..ReadCalls

\* C11: when a read of the file fails with an error other than io.EOF during
\* Delete, Comment, CommentOut, Replace(N) or ReplaceAtLine(N), the method
\* terminates, returns that error, and does not commit: the file is unchanged.
C11_ReadErrorAborts ==
    ReadFailed =>
        /\ pc = "returned"
        /\ last.res.err = EIO
        /\ ~last.res.commit
        /\ disk = last.pre

\* What holds of C11: Delete and Replace(N) test the error of every read, so
\* they return it and do not commit.
ReadErrorAbortsDeleteAndReplace ==
    (ReadFailed /\ last.op \in {"Delete"} \cup ReplaceOps) =>
        /\ pc = "returned"
        /\ last.res.err = EIO
        /\ ~last.res.commit
        /\ disk = last.pre

\* What the line loops of Comment and genReplaceAtLine do instead: they never
\* return the error of a failed read. Either the method returns nil (and may
\* have committed), or it never returns.
ReadErrorLostInLineLoops ==
    (ReadFailed /\ last.op \in AtLineOps \cup CommentOps) =>
        \/ pc = "looping" /\ last.args.fault.again
        \/ pc = "returned" /\ last.res.err = "nil" /\ ~last.args.fault.again

\* A failed read followed by a commit: the first read of Comment(["a"]) on
\* "a\n" fails, the next ones succeed, the file becomes "# a\n" and Comment
\* returns nil.
ReadErrorThenCommit ==
    /\ last.op = "Comment"
    /\ last.args.reLine = <<(<<"a">>)>>
    /\ last.args.fault = [call |-> 1, again |-> FALSE]
    /\ last.pre = <<"a", NL>>
    /\ last.res.err = "nil"
    /\ disk = <<"#", SP, "a", NL>>

\* Without a failing read the methods do what they do on a sound file.
SoundReadsAsBefore ==
    (last.op # "none" /\ ~ReadFailed) =>
        last.res = CASE last.op = "Delete" -> Delete(last.pre, last.args.begin, last.args.end)
                     [] last.op = "Comment" -> Comment(last.pre, conf, last.args.reLine)
                     [] last.op = "CommentOut" -> CommentOut(last.pre, conf, last.args.reLine)
                     [] last.op \in ReplaceOps -> genReplace(last.pre, last.args.r, last.args.n)
                     [] last.op \in AtLineOps -> genReplaceAtLine(last.pre, last.args.r, last.args.n)
                     [] OTHER -> last.res

=============================================================================
